---- MODULE Spec2Model ----
(***************************************************************************)
(* A model of tide_pred.py: the harmonic parameter parser                  *)
(* (TidePred.read_tide_params), the time alignment (TidePred.tidal_pred,   *)
(* TidePred.hours_to_zero), the annual grid generator                      *)
(* (HourlyReport.generate_hourly_report) and the script body under         *)
(* __main__ with its comparison against observations.                      *)
(*                                                                         *)
(* Floats: every float the model computes with is a whole number of hours  *)
(* or days (exact in binary64), so those are integers here.  A float read  *)
(* from the parameter file is kept in hundredths (float("1.5") is 150).    *)
(* The trigonometric sum of h_tide_comp is not evaluated: the tide height  *)
(* 0.01 * h_tide_comp(m, t) is written Height(t) and kept as the elapsed    *)
(* time t the sum was taken at, which is 1 or more; 0 is the float 0.0.     *)
(***************************************************************************)
EXTENDS Integers, Sequences, FiniteSets, TLC

VARIABLES
    pc,               \* position in the script / in the call under study
    fn,               \* the parameter file at args.param_file: NoFile or its lines
    tide,             \* the TidePred object: tp (TideParam) and no_of_sub_tide
    code,             \* what read_tide_params / init_report returned
    out,              \* what was printed, as message tags, in order
    exit_code,        \* the status sys.exit() was given (None is 0), -1: not exited
    year,             \* args.year
    i,                \* generate_hourly_report's loop index over the days
    stage,            \* generate_hourly_report's latest row
    report,           \* generate_hourly_report's report / full_report_data
    stage_writes,     \* ghost: how often each cell of stage was assigned
    n_calls,          \* ghost: number of calls of tidal_pred
    calls,            \* ghost: the timestamps tidal_pred got in the latest step
    annual_written,   \* output_to_text_file wrote {year}_AnnualReport.txt
    compare,          \* args.compare
    obs_file,         \* args.obs_file: "unset", "missing" or "exists"
    observations,     \* what read_observations returned
    comparison_data,  \* the rows handed to write_comparison_csv
    csv_written,      \* write_comparison_csv was called
    ay, by, hours,    \* hours_to_zero's arguments and result
    hours_i, hours_d, \* hours_to_zero's loop variable i and sum d
    tb, t_prev, t_cur \* tidal_pred's argument, and the elapsed times it used

vars == <<pc, fn, tide, code, out, exit_code, year, i, stage, report,
          stage_writes, n_calls, calls, annual_written,
          compare, obs_file, observations, comparison_data, csv_written,
          ay, by, hours, hours_i, hours_d, tb, t_prev, t_cur>>

(***************************************************************************)
(* Bounds of the model.                                                    *)
(***************************************************************************)
MaxLines == 6        \* longest parameter file explored, in lines
MaxObs == 2          \* longest observation file explored, in rows
YearLo == 1999       \* hours_to_zero is explored for YearLo <= ay, by <= YearHi
YearHi == 2101
PredYearLo == 2011   \* tidal_pred is walked hour by hour over these years
PredYearHi == 2013

(***************************************************************************)
(* The standard library: calendar.isleap and datetime arithmetic.          *)
(* A datetime is [ord, hour, minute]: the proleptic Gregorian ordinal of   *)
(* its date (datetime.toordinal) and its time of day.                      *)
(***************************************************************************)
isleap_century_blind(y) == y % 4 = 0

isleap(y) == y % 4 = 0 /\ (y % 100 # 0 \/ y % 400 = 0)

\* datetime's _days_before_year: days before January 1st of year y
days_before_year(y) ==
    (y - 1) * 365 + ((y - 1) \div 4) - ((y - 1) \div 100) + ((y - 1) \div 400)

\* datetime.datetime(y, 1, 1, 0, 0)
new_years_day(y) == [ord |-> days_before_year(y) + 1, hour |-> 0, minute |-> 0]

\* dt + datetime.timedelta(days=days, hours=hrs)
dt_add(dt, days, hrs) ==
    LET h == dt.hour + hrs
    IN  [ord |-> dt.ord + days + (h \div 24), hour |-> h % 24, minute |-> dt.minute]

\* (a - b).total_seconds()
total_seconds(a, b) ==
    (a.ord - b.ord) * 86400 + (a.hour - b.hour) * 3600 + (a.minute - b.minute) * 60

\* dt.year
year_of(dt) ==
    CHOOSE y \in (dt.ord \div 366)..((dt.ord \div 365) + 1) :
        days_before_year(y) < dt.ord /\ dt.ord <= days_before_year(y + 1)

(***************************************************************************)
(* TidePred.hours_to_zero                                                  *)
(***************************************************************************)
\* the bug of counting the days of the year that follows
hours_to_zero_body_next_year(k, d) == d + (IF isleap(k + 1) THEN 366 ELSE 365)

\* lines 168-171: one iteration, for the year k
hours_to_zero_body(k, d) == d + (IF isleap(k) THEN 366 ELSE 365)

RECURSIVE hours_to_zero_loop(_, _, _)
hours_to_zero_loop(k, b, d) ==
    IF k >= b THEN d
    ELSE hours_to_zero_loop(k + 1, b, hours_to_zero_body(k, d))

hours_to_zero(a, b) ==
    (IF b > a THEN hours_to_zero_loop(a, b, 0) ELSE 0) * 24

(***************************************************************************)
(* The parameter file.  A line is the sequence of its whitespace-separated *)
(* words; a file is [exists, lines].  "NSubTide" and "MeanLevel(CM)" stand *)
(* for the two CJK markers of line 60.                                     *)
(***************************************************************************)
LineObservedYear == <<"*", "Observed", "Year">>
LineYear == <<"2010">>
LineCountHead == <<"*", "NSubTide", "MeanLevel(CM)">>
LineCount == <<"2", "1.5">>
LineTableHead == <<"*", "Name", "Period", "Am", "Angle", "Cj(CM)", "Sj(CM)">>
LineRow == <<"M2", "12", "5", "1.5", "3", "4">>
LineRowZero == <<"K1", "0", "5", "1.5", "3", "4">>

LineAlphabet ==
    {LineObservedYear, LineYear, LineCountHead, LineCount, LineTableHead,
     LineRow, LineRowZero}

Files == UNION {[1..n -> LineAlphabet] : n \in 0..MaxLines}

\* a complete file: both rows of the table present and well formed
SampleFile ==
    <<LineObservedYear, LineYear, LineCountHead, LineCount, LineTableHead,
      LineRow, LineRow>>

\* the same with a second constituent of period 0
ZeroPeriodFile ==
    <<LineObservedYear, LineYear, LineCountHead, LineCount, LineTableHead,
      LineRow, LineRowZero>>

NoFile == [exists |-> FALSE, lines |-> <<>>]

ParamInputs ==
    {NoFile} \cup {[exists |-> TRUE, lines |-> l] :
                      l \in Files \cup {SampleFile, ZeroPeriodFile}}

words(line) == {line[k] : k \in 1..Len(line)}

\* "Observed Year" in line
has_observed_year(line) ==
    \E k \in 1..(Len(line) - 1) : line[k] = "Observed" /\ line[k + 1] = "Year"

\* the two markers of line 60, both in line
has_count_head(line) == "NSubTide" \in words(line) /\ "MeanLevel(CM)" \in words(line)

\* "Cj(CM)" in line and "Sj(CM)" in line
has_table_head(line) == "Cj(CM)" \in words(line) /\ "Sj(CM)" \in words(line)

\* int(s) and float(s): which words convert, and to what (floats in hundredths)
IntWords == {"0", "2", "3", "4", "5", "12", "2010"}

int_ok(s) == s \in IntWords

int_of(s) ==
    CASE s = "0" -> 0 [] s = "2" -> 2 [] s = "3" -> 3 [] s = "4" -> 4
      [] s = "5" -> 5 [] s = "12" -> 12 [] s = "2010" -> 2010

float_ok(s) == s \in IntWords \cup {"1.5"}

float_of(s) == IF s = "1.5" THEN 150 ELSE int_of(s) * 100

(***************************************************************************)
(* TideParam, TidePred.__init__                                            *)
(***************************************************************************)
TideParam ==
    [param_year |-> 0, h0 |-> 0, tide_name |-> <<>>, cj |-> <<>>, sj |-> <<>>,
     sub_tide_period |-> <<>>]

TidePred == [tp |-> TideParam, no_of_sub_tide |-> 0]

(***************************************************************************)
(* TidePred.read_tide_params.  The scan state st is [self, data_start_index,*)
(* exc]; exc is "none" or the exception that left the try block.           *)
(***************************************************************************)
RECURSIVE scan_lines(_, _, _)
scan_lines(lines, k, st) ==
    IF k >= Len(lines) THEN st
    ELSE
        LET line == lines[k + 1] IN
        IF has_observed_year(line) THEN
            IF k + 1 < Len(lines) THEN
                LET year_str == lines[k + 2] IN
                IF Len(year_str) = 1 /\ int_ok(year_str[1])
                THEN scan_lines(lines, k + 1,
                         [st EXCEPT !.self.tp.param_year = int_of(year_str[1])])
                ELSE [st EXCEPT !.exc = "ValueError"]
            ELSE scan_lines(lines, k + 1, st)
        ELSE IF has_count_head(line) THEN
            IF k + 1 < Len(lines) /\ Len(lines[k + 2]) >= 2 THEN
                LET parts == lines[k + 2] IN
                IF ~int_ok(parts[1]) THEN [st EXCEPT !.exc = "ValueError"]
                ELSE IF ~float_ok(parts[2])
                THEN [st EXCEPT !.self.no_of_sub_tide = int_of(parts[1]),
                                !.exc = "ValueError"]
                ELSE scan_lines(lines, k + 1,
                         [st EXCEPT !.self.no_of_sub_tide = int_of(parts[1]),
                                    !.self.tp.h0 = float_of(parts[2])])
            ELSE scan_lines(lines, k + 1, st)
        ELSE IF has_table_head(line) THEN [st EXCEPT !.data_start_index = k + 1]
        ELSE scan_lines(lines, k + 1, st)

RECURSIVE read_rows(_, _, _)
read_rows(lines, k, st) ==
    IF k >= st.self.no_of_sub_tide THEN st
    ELSE
        LET line_index == st.data_start_index + k IN
        IF line_index < Len(lines) /\ Len(lines[line_index + 1]) >= 6 THEN
            LET parts == lines[line_index + 1]
                named == [st EXCEPT !.self.tp.tide_name = Append(@, parts[1])]
            IN  IF ~float_ok(parts[2]) THEN [named EXCEPT !.exc = "ValueError"]
                ELSE
                LET timed == [named EXCEPT !.self.tp.sub_tide_period =
                                               Append(@, float_of(parts[2]))]
                IN  IF ~float_ok(parts[5]) THEN [timed EXCEPT !.exc = "ValueError"]
                    ELSE
                    LET cosed == [timed EXCEPT !.self.tp.cj =
                                                   Append(@, float_of(parts[5]))]
                    IN  IF ~float_ok(parts[6])
                        THEN [cosed EXCEPT !.exc = "ValueError"]
                        ELSE read_rows(lines, k + 1,
                                 [cosed EXCEPT !.self.tp.sj =
                                                   Append(@, float_of(parts[6]))])
        ELSE read_rows(lines, k + 1, st)

\* the bug of not asking for a captured constituent
incomplete_blind(self) == self.tp.param_year = 0 \/ self.no_of_sub_tide = 0

\* line 88: what makes the read incomplete
incomplete(self) ==
    self.tp.param_year = 0 \/ self.no_of_sub_tide = 0 \/ self.tp.tide_name = <<>>

\* the bug of one except clause for every exception
handler_one_clause(exc) == [ret |-> -1, msg |-> "parse_error"]

\* lines 92-97: the except clauses
handler(exc) ==
    IF exc = "FileNotFoundError" THEN [ret |-> -1, msg |-> "file_not_found"]
    ELSE [ret |-> -1, msg |-> "parse_error"]

\* the call self.read_tide_params(fn): [self, ret, msg]
read_tide_params(self, f) ==
    LET failed(s, exc) == [self |-> s] @@ handler(exc) IN
    IF ~f.exists THEN failed(self, "FileNotFoundError")
    ELSE
        LET cleared == [self EXCEPT !.tp.tide_name = <<>>, !.tp.cj = <<>>,
                                    !.tp.sj = <<>>, !.tp.sub_tide_period = <<>>]
            scanned == scan_lines(f.lines, 0,
                           [self |-> cleared, data_start_index |-> -1, exc |-> "none"])
            rowed == IF scanned.exc = "none" /\ scanned.data_start_index # -1
                        /\ scanned.self.no_of_sub_tide > 0
                     THEN read_rows(f.lines, 0, scanned)
                     ELSE scanned
        IN  IF rowed.exc # "none" THEN failed(rowed.self, rowed.exc)
            ELSE IF incomplete(rowed.self) THEN failed(rowed.self, "ValueError")
            ELSE [self |-> rowed.self, ret |-> 0, msg |-> "none"]

(***************************************************************************)
(* TidePred.h_tide_comp, TidePred.tidal_pred.  A result is [exc, val].     *)
(***************************************************************************)
Zero == 0

Height(t) == t

RECURSIVE h_tide_comp(_, _, _, _)
h_tide_comp(self, m, t, k) ==
    IF k >= m THEN [exc |-> "none", val |-> Height(t)]
    ELSE IF k >= Len(self.tp.sub_tide_period)
    THEN [exc |-> "IndexError", val |-> Zero]
    ELSE IF self.tp.sub_tide_period[k + 1] = 0
    THEN [exc |-> "ZeroDivisionError", val |-> Zero]
    ELSE IF k >= Len(self.tp.cj) \/ k >= Len(self.tp.sj)
    THEN [exc |-> "IndexError", val |-> Zero]
    ELSE h_tide_comp(self, m, t, k + 1)

\* the bug of measuring from New Year's Day itself
elapsed_no_offset(self, dt) ==
    LET yr == year_of(dt)
    IN  (total_seconds(dt, new_years_day(yr)) \div 3600)
            + hours_to_zero(self.tp.param_year, yr)

\* lines 137-146: t0 + shift_time, for a timestamp on a whole hour
elapsed(self, dt) ==
    LET yr == year_of(dt)
        shift_time == hours_to_zero(self.tp.param_year, yr)
        yuan_dan_xt == dt_add(new_years_day(yr), 0, -1)
        t0 == total_seconds(dt, yuan_dan_xt) \div 3600
    IN  t0 + shift_time

tidal_pred(self, dt) == h_tide_comp(self, self.no_of_sub_tide, elapsed(self, dt), 0)

(***************************************************************************)
(* HourlyReport.init_report and print_cj_sj                                *)
(***************************************************************************)
\* print_cj_sj indexes tp.cj[i] for every i in range(no_of_sub_tide)
print_cj_sj_raises(self) == self.no_of_sub_tide > Len(self.tp.cj)

(***************************************************************************)
(* HourlyReport.generate_hourly_report                                     *)
(***************************************************************************)
\* the bug of a year of 365 days whatever the year
days_of_year_common(y) == 365

\* line 262
days_of_year(y) == IF isleap(y) THEN 366 ELSE 365

\* line 265: [0.0] * 24
blank_stage == [k \in 1..24 |-> Zero]

\* lines 267-270: the loop over j, from j on; st is [stage, writes, calls, exc]
RECURSIVE hour_loop(_, _, _, _)
hour_loop(self, d, j, st) ==
    IF j >= 24 THEN st
    ELSE
        LET dh == dt_add(d, 0, j)
            tide_h == tidal_pred(self, dh)
            called == [st EXCEPT !.calls = Append(@, dh)]
        IN  IF tide_h.exc # "none" THEN [called EXCEPT !.exc = tide_h.exc]
            ELSE hour_loop(self, d, j + 1,
                     [called EXCEPT !.stage[j + 1] = tide_h.val,
                                    !.writes[j + 1] = @ + 1])

(***************************************************************************)
(* read_observations and the comparison of __main__.  A row of the         *)
(* observation file is [ok, time, value]: ok says that strptime and float  *)
(* convert its fields, time and value are what they convert to.            *)
(***************************************************************************)
ObsRows(y) ==
    {[ok |-> TRUE, time |-> new_years_day(y), value |-> 7],
     [ok |-> TRUE, time |-> [new_years_day(y) EXCEPT !.minute = 30], value |-> 7],
     [ok |-> TRUE, time |-> dt_add(new_years_day(y), 0, -1), value |-> 7],
     [ok |-> TRUE, time |-> dt_add(new_years_day(y + 1), 0, -1), value |-> 7],
     [ok |-> FALSE, time |-> new_years_day(y), value |-> 0]}

ObsFiles(y) == UNION {[1..n -> ObsRows(y)] : n \in 0..MaxObs}

RECURSIVE read_observations(_, _)
read_observations(rows, k) ==
    IF k > Len(rows) THEN <<>>
    ELSE IF rows[k].ok
    THEN <<[time |-> rows[k].time, value |-> rows[k].value]>>
             \o read_observations(rows, k + 1)
    ELSE read_observations(rows, k + 1)

\* strftime('%Y-%m-%d %H:%M:%S'), the date as (year, day of the year)
strftime(dt) ==
    <<year_of(dt), dt.ord - days_before_year(year_of(dt)), dt.hour, dt.minute>>

\* the bug of keying the map one day late
predicted_map_get_day_late(rep, start_date, t) ==
    LET hits == {dh \in (0..(Len(rep) - 1)) \X (0..23) :
                     dt_add(start_date, dh[1] + 1, dh[2]) = t}
    IN  IF hits = {} THEN [found |-> FALSE, val |-> Zero]
        ELSE LET dh == CHOOSE x \in hits : TRUE
             IN  [found |-> TRUE, val |-> rep[dh[1] + 1][dh[2] + 1]]

\* lines 459-464 and 476: predicted_map.get(t) of the map keyed by
\* start_date + timedelta(days=day_idx, hours=hour_idx); the keys are distinct
predicted_map_get(rep, start_date, t) ==
    LET hits == {dh \in (0..(Len(rep) - 1)) \X (0..23) :
                     dt_add(start_date, dh[1], dh[2]) = t}
    IN  IF hits = {} THEN [found |-> FALSE, val |-> Zero]
        ELSE LET dh == CHOOSE x \in hits : TRUE
             IN  [found |-> TRUE, val |-> rep[dh[1] + 1][dh[2] + 1]]

\* lines 472-485
RECURSIVE compare_loop(_, _, _, _)
compare_loop(obs, k, rep, y) ==
    IF k > Len(obs) THEN <<>>
    ELSE
        LET rest == compare_loop(obs, k + 1, rep, y)
            obs_time == obs[k].time
        IN  IF year_of(obs_time) = y THEN
                LET predicted_value == predicted_map_get(rep, new_years_day(y), obs_time)
                IN  IF predicted_value.found
                    THEN <<[time |-> strftime(obs_time), observed |-> obs[k].value,
                            predicted |-> predicted_value.val]>> \o rest
                    ELSE rest
            ELSE rest

(***************************************************************************)
(* The script: __main__                                                    *)
(***************************************************************************)
ArgYears == {2011, 2012}

NoTime == [ord |-> 0, hour |-> 0, minute |-> 0]

hoursIdle == ay = 0 /\ by = 0 /\ hours = -1 /\ hours_i = 0 /\ hours_d = 0
predIdle == tb = NoTime /\ t_prev = -1 /\ t_cur = -1
gridIdle ==
    /\ year = 0 /\ i = 0 /\ stage = <<>> /\ report = <<>> /\ stage_writes = <<>>
    /\ n_calls = 0 /\ calls = <<>>
compareIdle ==
    /\ annual_written = FALSE /\ compare = FALSE /\ obs_file = "unset"
    /\ observations = <<>> /\ comparison_data = <<>> /\ csv_written = FALSE

hoursVars == <<ay, by, hours, hours_i, hours_d>>
predVars == <<tb, t_prev, t_cur>>
loadVars == <<fn, tide, code>>
gridVars == <<year, i, stage, report, stage_writes>>
callVars == <<n_calls, calls>>
compareVars ==
    <<annual_written, compare, obs_file, observations, comparison_data, csv_written>>

Init ==
    /\ pc = "start"
    /\ fn \in ParamInputs
    /\ tide = TidePred
    /\ code = 1            \* neither 0 nor -1: init_report has not returned
    /\ out = <<>>
    /\ exit_code = -1
    /\ gridIdle /\ compareIdle /\ hoursIdle /\ predIdle

\* lines 422-425
CheckParamFile ==
    /\ pc = "start"
    /\ IF ~fn.exists
       THEN /\ out' = Append(out, "no_such_file")
            /\ exit_code' = 0
            /\ pc' = "exit"
       ELSE /\ pc' = "init"
            /\ UNCHANGED <<out, exit_code>>
    /\ UNCHANGED <<loadVars, gridVars, callVars, compareVars, hoursVars, predVars>>

\* lines 427-429, with init_report (184-190)
InitReport ==
    /\ pc = "init"
    /\ LET r == read_tide_params(tide, fn) IN
       /\ tide' = r.self
       /\ IF r.ret = -1
          THEN /\ code' = -1
               /\ out' = Append(out, r.msg)
               /\ exit_code' = 0
               /\ pc' = "exit"
          ELSE IF print_cj_sj_raises(r.self)
          THEN /\ out' = Append(out, "Traceback: IndexError")
               /\ exit_code' = 1
               /\ pc' = "crash"
               /\ UNCHANGED code
          ELSE /\ code' = r.ret
               /\ out' = Append(out, "print_cj_sj")
               /\ pc' = "generate"
               /\ UNCHANGED exit_code
    /\ UNCHANGED <<fn, gridVars, callVars, compareVars, hoursVars, predVars>>

\* lines 431-432 and 261-263
GenerateStart ==
    /\ pc = "generate"
    /\ \E y \in ArgYears : year' = y
    /\ report' = <<>>
    /\ i' = 0
    /\ pc' = "day"
    /\ UNCHANGED <<loadVars, out, exit_code, stage, stage_writes, callVars,
                   compareVars, hoursVars, predVars>>

\* lines 264-271: one day
DayStep ==
    /\ pc = "day"
    /\ i < days_of_year(year)
    /\ LET d == dt_add(new_years_day(year), i, 0)
           r == hour_loop(tide, d, 0,
                    [stage |-> blank_stage, writes |-> [k \in 1..24 |-> 0],
                     calls |-> <<>>, exc |-> "none"])
       IN  /\ stage' = r.stage
           /\ stage_writes' = r.writes
           /\ calls' = r.calls
           /\ n_calls' = n_calls + Len(r.calls)
           /\ IF r.exc # "none"
              THEN /\ out' = Append(out, "Traceback: " \o r.exc)
                   /\ exit_code' = 1
                   /\ pc' = "crash"
                   /\ UNCHANGED <<report, i>>
              ELSE /\ report' = Append(report, r.stage)
                   /\ i' = i + 1
                   /\ UNCHANGED <<out, exit_code, pc>>
    /\ UNCHANGED <<loadVars, year, compareVars, hoursVars, predVars>>

\* lines 272 and 433
GenerateReturn ==
    /\ pc = "day"
    /\ i >= days_of_year(year)
    /\ pc' = "print"
    /\ UNCHANGED <<loadVars, out, exit_code, gridVars, callVars, compareVars,
                   hoursVars, predVars>>

\* lines 435-444
WriteAnnualReport ==
    /\ pc = "print"
    /\ annual_written' = TRUE
    /\ out' = Append(out, "annual_report_written")
    /\ pc' = "compare"
    /\ UNCHANGED <<loadVars, exit_code, gridVars, callVars, compare, obs_file,
                   observations, comparison_data, csv_written, hoursVars, predVars>>

\* lines 447-453
CompareCheck ==
    /\ pc = "compare"
    /\ \E c \in BOOLEAN, f \in {"unset", "missing", "exists"} :
        /\ compare' = c
        /\ obs_file' = f
        /\ IF ~c
           THEN pc' = "done" /\ exit_code' = 0 /\ UNCHANGED out
           ELSE IF f = "unset"
           THEN pc' = "exit" /\ exit_code' = 1 /\ out' = Append(out, "obs_file_required")
           ELSE IF f = "missing"
           THEN pc' = "exit" /\ exit_code' = 1 /\ out' = Append(out, "obs_file_not_found")
           ELSE pc' = "read_obs" /\ UNCHANGED <<out, exit_code>>
    /\ UNCHANGED <<loadVars, gridVars, callVars, annual_written, observations,
                   comparison_data, csv_written, hoursVars, predVars>>

\* lines 455-503
CompareRun ==
    /\ pc = "read_obs"
    /\ \E rows \in ObsFiles(year) :
        LET obs == read_observations(rows, 1)
            data == compare_loop(obs, 1, report, year)
        IN  /\ observations' = obs
            /\ comparison_data' = data
            /\ IF data = <<>>
               THEN csv_written' = FALSE /\ out' = Append(out, "no_matching_data")
               ELSE csv_written' = TRUE /\ out' = Append(out, "comparison_csv_written")
    /\ pc' = "done"
    /\ exit_code' = 0
    /\ UNCHANGED <<loadVars, gridVars, callVars, annual_written, compare, obs_file,
                   hoursVars, predVars>>

Next ==
    \/ CheckParamFile
    \/ InitReport
    \/ GenerateStart
    \/ DayStep
    \/ GenerateReturn
    \/ WriteAnnualReport
    \/ CompareCheck
    \/ CompareRun

Spec == Init /\ [][Next]_vars

(***************************************************************************)
(* A direct call of read_tide_params on a fresh TidePred                   *)
(***************************************************************************)
InitLoad ==
    /\ pc = "load"
    /\ fn \in ParamInputs
    /\ tide = TidePred
    /\ code = 1
    /\ out = <<>>
    /\ exit_code = -1
    /\ gridIdle /\ compareIdle /\ hoursIdle /\ predIdle

Load ==
    /\ pc = "load"
    /\ LET r == read_tide_params(tide, fn) IN
       /\ tide' = r.self
       /\ code' = r.ret
       /\ out' = IF r.ret = -1 THEN Append(out, r.msg) ELSE out
    /\ pc' = "loaded"
    /\ UNCHANGED <<fn, exit_code, gridVars, callVars, compareVars, hoursVars, predVars>>

NextLoad == Load

SpecLoad == InitLoad /\ [][NextLoad]_vars

(***************************************************************************)
(* A call of hours_to_zero, one iteration of its loop at a time            *)
(***************************************************************************)
InitHours ==
    /\ pc = "call"
    /\ ay \in YearLo..YearHi
    /\ by \in YearLo..YearHi
    /\ hours = -1 /\ hours_i = 0 /\ hours_d = 0
    /\ fn = NoFile /\ tide = TidePred /\ code = 1 /\ out = <<>> /\ exit_code = -1
    /\ gridIdle /\ compareIdle /\ predIdle

\* lines 165-167
HoursEnter ==
    /\ pc = "call"
    /\ hours_d' = 0
    /\ IF by > ay
       THEN hours_i' = ay /\ pc' = "loop"
       ELSE pc' = "end" /\ UNCHANGED hours_i
    /\ UNCHANGED <<ay, by, hours, loadVars, out, exit_code, gridVars, callVars,
                   compareVars, predVars>>

\* lines 167-171, for i in range(ay, by)
HoursYear ==
    /\ pc = "loop"
    /\ hours_i < by
    /\ hours_d' = hours_to_zero_body(hours_i, hours_d)
    /\ hours_i' = hours_i + 1
    /\ UNCHANGED <<pc, ay, by, hours, loadVars, out, exit_code, gridVars, callVars,
                   compareVars, predVars>>

HoursLoopEnd ==
    /\ pc = "loop"
    /\ hours_i >= by
    /\ pc' = "end"
    /\ UNCHANGED <<hoursVars, loadVars, out, exit_code, gridVars, callVars,
                   compareVars, predVars>>

\* line 172
HoursReturn ==
    /\ pc = "end"
    /\ hours' = hours_d * 24
    /\ pc' = "returned"
    /\ UNCHANGED <<ay, by, hours_i, hours_d, loadVars, out, exit_code, gridVars,
                   callVars, compareVars, predVars>>

NextHours == HoursEnter \/ HoursYear \/ HoursLoopEnd \/ HoursReturn

SpecHours == InitHours /\ [][NextHours]_vars

(***************************************************************************)
(* Calls of tidal_pred for one hour after the other, on the parameters of  *)
(* SampleFile refitted to the base year param_year                         *)
(***************************************************************************)
InitPred ==
    /\ pc = "pred"
    /\ fn = [exists |-> TRUE, lines |-> SampleFile]
    /\ \E b \in (PredYearLo - 1)..PredYearHi :
           tide = [read_tide_params(TidePred, fn).self EXCEPT !.tp.param_year = b]
    /\ code = 0
    /\ tb = new_years_day(PredYearLo)
    /\ t_prev = -1
    /\ t_cur = -1
    /\ out = <<>> /\ exit_code = -1
    /\ gridIdle /\ compareIdle /\ hoursIdle

Predict ==
    /\ pc = "pred"
    /\ year_of(tb) <= PredYearHi
    /\ LET h_tmp == tidal_pred(tide, tb) IN
       /\ h_tmp.exc = "none"
       /\ t_cur' = h_tmp.val
    /\ t_prev' = t_cur
    /\ n_calls' = n_calls + 1
    /\ calls' = <<tb>>
    /\ tb' = dt_add(tb, 0, 1)
    /\ UNCHANGED <<pc, loadVars, out, exit_code, gridVars, compareVars, hoursVars>>

NextPred == Predict

SpecPred == InitPred /\ [][NextPred]_vars

(***************************************************************************)
(* The claims.  What follows states the properties checked of the model;   *)
(* the Gregorian calendar is restated here from its rule, not from the     *)
(* code's calendar.isleap.                                                 *)
(***************************************************************************)
Gregorian(y) == (y % 4 = 0 /\ y % 100 # 0) \/ y % 400 = 0

\* days of the years a..b-1
YearDays(a, b) == 365 * (b - a) + Cardinality({y \in a..(b - 1) : Gregorian(y)})

Loaded == pc = "loaded"

\* C1: whenever read_tide_params returns 0 the parameter set has a base year
\* other than 0, a count above 0, and exactly count constituents in each of
\* tide_name, sub_tide_period, cj and sj.
C1_AcceptedSetIsComplete ==
    (Loaded /\ code = 0) =>
        /\ tide.tp.param_year # 0
        /\ tide.no_of_sub_tide > 0
        /\ Len(tide.tp.tide_name) = tide.no_of_sub_tide
        /\ Len(tide.tp.sub_tide_period) = tide.no_of_sub_tide
        /\ Len(tide.tp.cj) = tide.no_of_sub_tide
        /\ Len(tide.tp.sj) = tide.no_of_sub_tide

\* C2: hours_to_zero(ay, by) is 0 for by <= ay and otherwise 24 times the days
\* of the years ay..by-1 by the Gregorian rule (the sum built by the loop is
\* that of the years passed so far), so it grows strictly with by above ay.
C2_HoursToZeroSumsYears ==
    /\ pc = "loop" => hours_d = YearDays(ay, hours_i)
    /\ pc = "returned" =>
        /\ by <= ay => hours = 0
        /\ by > ay => hours = 24 * YearDays(ay, by)
        /\ by > ay => hours > 24 * YearDays(ay, by - 1)

C2_SpansBothCenturies ==
    /\ pc = "returned" /\ ay = 1999 /\ by = 2101
    /\ hours = 24 * (365 * 102 + 25)

\* C3 as amended: over a gap of one year hours_to_zero is 24 * 366 when the
\* earlier year ay is a leap year and 24 * 365 when it is not; from 2011 to 2012
\* it is 24 * 365, from 2012 to 2013 it is 24 * 366.
C3_OneYearGapIsTheEarlierYear ==
    (pc = "returned" /\ by = ay + 1) =>
        /\ hours = 24 * (IF Gregorian(ay) THEN 366 ELSE 365)
        /\ ay = 2011 => hours = 24 * 365
        /\ ay = 2012 => hours = 24 * 366

C3_From2011To2012 ==
    pc = "returned" /\ ay = 2011 /\ by = 2012 /\ hours = 8760

\* C3 as claimed: over a gap of one year hours_to_zero is 24 * 365 or 24 * 366,
\* and the gap from 2011 to 2012 is a leap-year gap of 24 * 366 hours.
C3_From2011To2012IsLeapGap ==
    (pc = "returned" /\ by = ay + 1) =>
        /\ hours \in {24 * 365, 24 * 366}
        /\ ay = 2011 => hours = 24 * 366

GenerationReturned ==
    pc \in {"print", "compare", "read_obs", "done"} \/ (pc = "exit" /\ annual_written)

\* C4: generate_hourly_report(year) returns one row of 24 cells for each day of
\* the year (366 rows in a leap year, 365 otherwise), cell (d, h) holding the
\* predictor's value for January 1st 00:00 plus d days and h hours; every cell
\* was assigned once, and every timestamp given to tidal_pred is in the year.
C4_GridIsDenseAndInYear ==
    /\ \A k \in 1..Len(calls) : year_of(calls[k]) = year
    /\ (pc = "day" /\ i > 0) =>
        /\ Len(report) = i /\ report[i] = stage
        /\ \A h \in 1..24 : stage_writes[h] = 1
    /\ GenerationReturned =>
        /\ Len(report) = (IF Gregorian(year) THEN 366 ELSE 365)
        /\ n_calls = 24 * Len(report)
        /\ \A d \in 1..Len(report) :
            /\ Len(report[d]) = 24
            /\ \A h \in 1..24 :
                report[d][h] =
                    tidal_pred(tide, [ord |-> days_before_year(year) + d,
                                      hour |-> h - 1, minute |-> 0]).val

C4_LeapYearGrid == pc = "print" /\ year = 2012 /\ Len(report) = 366

\* C5: every parameter set read_tide_params accepts has a period above 0 for
\* every constituent.
C5_AcceptedPeriodsPositive ==
    (Loaded /\ code = 0) =>
        \A k \in 1..Len(tide.tp.sub_tide_period) : tide.tp.sub_tide_period[k] > 0

NoTableHead(f) == f.exists /\ \A k \in 1..Len(f.lines) : ~has_table_head(f.lines[k])

\* C6: a parameter file with no line holding both "Cj(CM)" and "Sj(CM)" is
\* refused as a parse error, whatever else it holds, and the script then ends
\* without a single call of tidal_pred.
C6_NoTableHeadIsParseError ==
    NoTableHead(fn) =>
        /\ n_calls = 0
        /\ pc \in {"start", "init", "exit"}
        /\ pc = "exit" => (code = -1 /\ out = <<"parse_error">> /\ report = <<>>)

C6_CountAndYearButNoTable ==
    /\ NoTableHead(fn) /\ pc = "exit" /\ code = -1
    /\ tide.tp.param_year # 0 /\ tide.no_of_sub_tide > 0

\* C7 as amended: read_tide_params on a path that does not exist prints the
\* file-not-found message and never the parse-error message, on a file that
\* exists and is refused it prints the parse-error message; it returns -1 in
\* both cases, so the two differ in what is printed, not in what is returned.
C7_MissingFilePrintedApart ==
    Loaded =>
        /\ ~fn.exists => (code = -1 /\ out = <<"file_not_found">>)
        /\ (fn.exists /\ code # 0) => (code = -1 /\ out = <<"parse_error">>)
        /\ code = 0 => out = <<>>

C7_MissingFileLoaded == Loaded /\ ~fn.exists /\ out = <<"file_not_found">>

\* C7 as claimed: the outcome of loading a missing file differs from that of
\* loading a malformed one in what the caller gets back, and a missing file is
\* never reported as a parse error.
C7_CallerTellsFailuresApart ==
    Loaded =>
        /\ (fn.exists /\ code # 0) => code # read_tide_params(TidePred, NoFile).ret
        /\ ~fn.exists => out # <<"parse_error">>

\* C8: a run whose parameter file, or with --compare whose observation file,
\* does not exist ends without a call of tidal_pred and without writing the
\* annual report.
C8_MissingFileMeansNoPrediction ==
    (pc = "exit" /\ (~fn.exists \/ (compare /\ obs_file = "missing"))) =>
        (n_calls = 0 /\ ~annual_written)

\* an observation on a whole hour of the target year
InYearOnTheHour(t) ==
    /\ t.minute = 0
    /\ days_before_year(year) < t.ord
    /\ t.ord <= days_before_year(year + 1)

Matching == {n \in 1..Len(observations) : InYearOnTheHour(observations[n].time)}

Compared == pc = "done" /\ compare

\* C9 as amended: the comparison data hold one row for each observation whose
\* timestamp is a whole hour of the target year, in the order of the
\* observations, with its value and the grid cell of its day and hour; an hour
\* has as many rows as observations, and no other observation gives a row.
C9_OneRowPerMatchingObservation ==
    Compared =>
        /\ Len(comparison_data) = Cardinality(Matching)
        /\ \A k \in 1..Len(comparison_data) :
            LET n == CHOOSE m \in Matching : Cardinality({l \in Matching : l <= m}) = k
                t == observations[n].time
            IN  /\ comparison_data[k].time =
                       <<year, t.ord - days_before_year(year), t.hour, 0>>
                /\ comparison_data[k].observed = observations[n].value
                /\ comparison_data[k].predicted =
                       report[t.ord - days_before_year(year)][t.hour + 1]

C9_SameHourTwice ==
    /\ Compared /\ Len(comparison_data) = 2 /\ Len(observations) = 2
    /\ comparison_data[1].time = comparison_data[2].time

\* C9 as claimed: every hour of the target year is in at most one row of the
\* comparison data, and in one exactly when an observation has that timestamp;
\* the row holds the grid cell of that day and hour.
C9_OneRowPerObservedHour ==
    Compared =>
        /\ \A a, b \in 1..Len(comparison_data) :
               a # b => comparison_data[a].time # comparison_data[b].time
        /\ {comparison_data[k].time : k \in 1..Len(comparison_data)}
               = {strftime(observations[n].time) : n \in Matching}
        /\ \A k \in 1..Len(comparison_data) :
               comparison_data[k].predicted =
                   report[comparison_data[k].time[2]][comparison_data[k].time[3] + 1]

\* C10: the elapsed time tidal_pred sums at is 24 d + h + 1 hours plus
\* hours_to_zero(base year, year) for hour h of day d of the year, and from one
\* hour to the next it grows by 1 when both are in years from the base year on,
\* also from December 31st 23:00 to January 1st 00:00.
C10_ElapsedTimeIsContinuous ==
    n_calls >= 1 =>
        LET at == calls[1]
            yr == year_of(at)
            d == at.ord - days_before_year(yr) - 1
            base == tide.tp.param_year
            before == dt_add(at, 0, -1)
        IN  /\ t_cur = 24 * d + at.hour + 1
                         + (IF yr > base THEN 24 * YearDays(base, yr) ELSE 0)
            /\ (n_calls >= 2 /\ year_of(before) >= base) => t_cur = t_prev + 1

C10_AcrossLeapYearEnd ==
    /\ n_calls >= 2 /\ calls = <<new_years_day(2013)>>
    /\ tide.tp.param_year = 2011 /\ t_cur = t_prev + 1

====
